---- MODULE Spec2Model ----
(***************************************************************************)
(* A model of coc/wars.py and coc/war_attack.py: the derived properties of *)
(* ClanWar (status, type, is_cwl, attacks, members), of WarAttack          *)
(* (is_fresh_attack) and of ClanWarLeagueGroup (round filtering, the       *)
(* memoized clans list, get_wars).                                         *)
(*                                                                         *)
(* Conventions.  An Optional[T] is a sequence of length at most one: None  *)
(* is <<>> and a present value v is <<v>>.  A Python bool used as a sort   *)
(* key is the integer it equals (False = 0, True = 1).  A float            *)
(* destruction percentage is an integer number of tenths of a percent.   *)
(* A Timestamp is the integer number of seconds of its .time.  A Python    *)
(* list object is a record [id, items]: id is the object's identity.      *)
(***************************************************************************)
EXTENDS Integers, Sequences, FiniteSets

VARIABLES
    state,                    \* ClanWar.state
    war_tag,                  \* ClanWar.war_tag (Optional[str])
    preparation_start_time,   \* ClanWar.preparation_start_time (Optional[Timestamp])
    start_time,               \* ClanWar.start_time (Optional[Timestamp])
    clan,                     \* ClanWar.clan: [stars, destruction, attacks, members]
    opponent,                 \* ClanWar.opponent: the same fields
    data,                     \* the payload a ClanWarLeagueGroup is built from
    built,                    \* has ClanWarLeagueGroup.__init__ run
    rounds,                   \* ClanWarLeagueGroup.rounds
    number_of_rounds,         \* ClanWarLeagueGroup.number_of_rounds
    _clans,                   \* ClanWarLeagueGroup._clans, a list object
    iter_clans,               \* what the generator __iter_clans has still to yield
    allocated,                \* number of lists list(self.__iter_clans) has built
    returned,                 \* the list objects the clans property has returned
    pc,                       \* per concurrent reader: its position in the clans property
    clans_local,              \* per concurrent reader: the local variable `clans`
    ret                       \* the last call: [op, arg, val, exc]

vars == <<state, war_tag, preparation_start_time, start_time, clan, opponent,
          data, built, rounds, number_of_rounds, _clans, iter_clans, allocated,
          returned, pc, clans_local, ret>>

warVars == <<state, war_tag, preparation_start_time, start_time, clan, opponent>>

groupVars == <<data, built, rounds, number_of_rounds, _clans, iter_clans,
               allocated, returned, pc, clans_local>>

None == <<>>

Some(v) == <<v>>

\* Python truthiness of an Optional value whose present values are all truthy.
Truthy(x) == x # None

NoCall == [op |-> "none", arg |-> None, val |-> None, exc |-> ""]

Returns(op, arg, val) == [op |-> op, arg |-> arg, val |-> val, exc |-> ""]

EmptyClan == [stars |-> 0, destruction |-> 0, attacks |-> <<>>, members |-> <<>>]

NoReaders == <<>>

\* A group that is not part of the behaviour: nothing built, nothing declared.
NoGroup ==
    /\ data = [rounds |-> <<>>, clans |-> <<>>]
    /\ built = FALSE
    /\ rounds = <<>>
    /\ number_of_rounds = 0
    /\ _clans = [id |-> 0, items |-> <<>>]
    /\ iter_clans = <<>>
    /\ allocated = 0
    /\ returned = <<>>
    /\ pc = NoReaders
    /\ clans_local = NoReaders

\* A war that is not part of the behaviour.
NoWar ==
    /\ state = ""
    /\ war_tag = None
    /\ preparation_start_time = None
    /\ start_time = None
    /\ clan = EmptyClan
    /\ opponent = EmptyClan

----------------------------------------------------------------------------
(* ClanWar.status                                                          *)

MaxStars == 2

States == {"inWar", "warEnded", "preparation", "notInWar", ""}

\* Destruction percentages in tenths of a percent: 0.0, 49.9, 50.0, 100.0.
Destructions == {0, 499, 500, 1000}

mutant_status(s, c, o) ==
    IF s = "inWar" THEN
        IF c.stars > o.stars THEN "winning"
        ELSE IF c.stars = o.stars /\ c.destruction = o.destruction THEN "tied"
        ELSE "losing"
    ELSE IF s = "warEnded" THEN
        IF c.stars > o.stars THEN "won"
        ELSE IF c.stars = o.stars /\ c.destruction = o.destruction THEN "tie"
        ELSE "lost"
    ELSE ""

status(s, c, o) ==
    IF s = "inWar" THEN
        IF c.stars > o.stars THEN "winning"
        ELSE IF c.stars = o.stars /\ c.destruction > o.destruction THEN "winning"
        ELSE IF c.stars = o.stars /\ c.destruction = o.destruction THEN "tied"
        ELSE "losing"
    ELSE IF s = "warEnded" THEN
        IF c.stars > o.stars THEN "won"
        ELSE IF c.stars = o.stars /\ c.destruction > o.destruction THEN "won"
        ELSE IF c.stars = o.stars /\ c.destruction = o.destruction THEN "tie"
        ELSE "lost"
    ELSE ""

InitStatus ==
    /\ state \in States
    /\ war_tag = None
    /\ preparation_start_time = None
    /\ start_time = None
    /\ \E cs \in 0..MaxStars, cd \in Destructions :
           clan = [EmptyClan EXCEPT !.stars = cs, !.destruction = cd]
    /\ \E os \in 0..MaxStars, od \in Destructions :
           opponent = [EmptyClan EXCEPT !.stars = os, !.destruction = od]
    /\ NoGroup
    /\ ret = NoCall

GetStatus ==
    /\ ret' = Returns("status", None, Some(status(state, clan, opponent)))
    /\ UNCHANGED <<warVars, groupVars>>

NextStatus == GetStatus

SpecStatus == InitStatus /\ [][NextStatus]_vars

\* The order of two (stars, destruction) pairs: 1 if a is the greater, 0 if
\* they are equal, -1 if a is the smaller, comparing stars first.
LexCompare(a, b) ==
    IF a[1] # b[1] THEN (IF a[1] > b[1] THEN 1 ELSE -1)
    ELSE IF a[2] # b[2] THEN (IF a[2] > b[2] THEN 1 ELSE -1)
    ELSE 0

HomeVsOpponent ==
    LexCompare(<<clan.stars, clan.destruction>>, <<opponent.stars, opponent.destruction>>)

\* C1: status is the two-level lexicographic comparison of (stars,
\* destruction) seen from the home side: winning/tied/losing when the state is
\* "inWar", won/tie/lost when it is "warEnded", "" for every other state.
C1_StatusLexicographic ==
    ret.op = "status" =>
        ret.val = Some(
            CASE state = "inWar" ->
                   (CASE HomeVsOpponent = 1 -> "winning"
                      [] HomeVsOpponent = 0 -> "tied"
                      [] OTHER -> "losing")
              [] state = "warEnded" ->
                   (CASE HomeVsOpponent = 1 -> "won"
                      [] HomeVsOpponent = 0 -> "tie"
                      [] OTHER -> "lost")
              [] OTHER -> "")

\* Equal stars, home destruction 50.0 against 49.9, in war: the second level
\* of the comparison decides.
C1_Witness ==
    /\ ret.op = "status"
    /\ state = "inWar"
    /\ clan.stars = opponent.stars
    /\ clan.destruction = 500
    /\ opponent.destruction = 499
    /\ ret.val = Some("winning")

----------------------------------------------------------------------------
(* ClanWar.type and ClanWar.is_cwl                                         *)

MaxDays == 1

prep_list ==
    << 15 * 60, 30 * 60, 60 * 60, 2 * 60 * 60, 4 * 60 * 60, 6 * 60 * 60,
       8 * 60 * 60, 12 * 60 * 60, 16 * 60 * 60, 20 * 60 * 60, 24 * 60 * 60 >>

InList(x, list) == \E i \in 1..Len(list) : list[i] = x

\* timedelta.seconds for a difference of d whole seconds: a timedelta is
\* normalised to days, 0 <= seconds < 24*60*60 and microseconds, and .seconds
\* is the middle field alone (not total_seconds()).
timedelta_seconds(d) == d % (24 * 60 * 60)

mutant_type(wt, st, pt) ==
    IF ~Truthy(st) THEN [val |-> None, exc |-> ""]
    ELSE IF Truthy(wt) THEN [val |-> Some("cwl"), exc |-> ""]
    ELSE IF pt = None THEN [val |-> None, exc |-> "AttributeError"]
    ELSE IF InList(timedelta_seconds(st[1] - pt[1]), prep_list)
         THEN [val |-> Some("friendly"), exc |-> ""]
    ELSE [val |-> Some("random"), exc |-> ""]

\* type(war_tag, start_time, preparation_start_time): the value returned, or
\* the exception raised by None.time when only the preparation start is absent.
type(wt, st, pt) ==
    IF Truthy(wt) THEN [val |-> Some("cwl"), exc |-> ""]
    ELSE IF ~Truthy(st) THEN [val |-> None, exc |-> ""]
    ELSE IF pt = None THEN [val |-> None, exc |-> "AttributeError"]
    ELSE IF InList(timedelta_seconds(st[1] - pt[1]), prep_list)
         THEN [val |-> Some("friendly"), exc |-> ""]
    ELSE [val |-> Some("random"), exc |-> ""]

is_cwl(wt, st, pt) ==
    LET t == type(wt, st, pt)
    IN  IF t.exc # "" THEN t ELSE [val |-> Some(t.val = Some("cwl")), exc |-> ""]

WarTags == {None, Some("#2ABC")}

PrepStarts == {0, 1800}

Windows == {prep_list[i] : i \in 1..Len(prep_list)}

\* Elapsed seconds between preparation start and battle start: the windows,
\* the windows plus whole days, and times that are no window.
Elapsed ==
    Windows
    \cup {w + k * 24 * 60 * 60 : w \in Windows, k \in 1..MaxDays}
    \cup {0, 1, 899, 901, 12345, 24 * 60 * 60 - 1, 24 * 60 * 60 + 1}

InitType ==
    /\ state = "preparation"
    /\ war_tag \in WarTags
    /\ \/ preparation_start_time = None /\ start_time = None
       \/ \E p \in PrepStarts :
              /\ preparation_start_time = Some(p)
              /\ start_time \in {None} \cup {Some(p + d) : d \in Elapsed}
       \/ \E p \in PrepStarts :
              /\ preparation_start_time = None
              /\ start_time = Some(p)
    /\ clan = EmptyClan
    /\ opponent = EmptyClan
    /\ NoGroup
    /\ ret = NoCall

GetType ==
    /\ LET t == type(war_tag, start_time, preparation_start_time)
       IN  ret' = [op |-> "type", arg |-> None, val |-> t.val, exc |-> t.exc]
    /\ UNCHANGED <<warVars, groupVars>>

GetIsCwl ==
    /\ LET t == is_cwl(war_tag, start_time, preparation_start_time)
       IN  ret' = [op |-> "is_cwl", arg |-> None, val |-> t.val, exc |-> t.exc]
    /\ UNCHANGED <<warVars, groupVars>>

NextType == GetType \/ GetIsCwl

SpecType == InitType /\ [][NextType]_vars

BothTimesPresent == start_time # None /\ preparation_start_time # None

ElapsedSeconds == start_time[1] - preparation_start_time[1]

\* C3: with no war tag and a present start time, type is "friendly" exactly
\* when the elapsed seconds between preparation start and battle start are one
\* of the eleven windows (24 hours included), and "random" for every other
\* elapsed time, also for a window plus a whole number of days.
C3_FriendlyIffWindow ==
    (ret.op = "type" /\ war_tag = None /\ BothTimesPresent) =>
        /\ ret.exc = ""
        /\ ret.val = IF ElapsedSeconds \in Windows THEN Some("friendly") ELSE Some("random")

\* C9: type is "cwl" whenever a war tag is present, whatever the timestamps
\* are; it is None when the war tag and the start time are both absent; and
\* is_cwl is true exactly when type is "cwl".
C9_CwlByTag ==
    /\ (ret.op = "type" /\ war_tag # None) => (ret.exc = "" /\ ret.val = Some("cwl"))
    /\ (ret.op = "type" /\ war_tag = None /\ start_time = None) =>
           (ret.exc = "" /\ ret.val = None)
    /\ ret.op = "is_cwl" =>
           /\ (ret.val = Some(TRUE)) <=> (war_tag # None)
           /\ (ret.val = Some(TRUE)) <=>
                  (type(war_tag, start_time, preparation_start_time).val = Some("cwl"))

\* A league war whose timestamps are both absent, asked for is_cwl.
C9_Witness ==
    /\ ret.op = "is_cwl"
    /\ war_tag # None
    /\ start_time = None
    /\ preparation_start_time = None
    /\ ret.val = Some(TRUE)

----------------------------------------------------------------------------
(* ClanWar.attacks, ClanWar.members, WarAttack.is_fresh_attack             *)

MaxSide == 3

MaxAttacks == 3

MaxDefenders == 2

Bool(b) == IF b THEN 1 ELSE 0

\* Python's order on two tuples of integers of the same length.
TupleLess(a, b) ==
    \E i \in 1..Len(a) : a[i] < b[i] /\ \A j \in 1..(i - 1) : a[j] = b[j]

\* sorted() is stable: an element goes after every element already placed that
\* does not have to follow it, with reverse=True as without.
RECURSIVE InsertStable(_, _, _)
InsertStable(s, x, reverse) ==
    IF s = <<>> THEN <<x>>
    ELSE IF (IF reverse THEN TupleLess(Head(s).key, x.key) ELSE TupleLess(x.key, Head(s).key))
         THEN <<x>> \o s
    ELSE <<Head(s)>> \o InsertStable(Tail(s), x, reverse)

\* sorted(list, key=..., reverse=...) on a list of [key, item] pairs.
RECURSIVE sorted(_, _)
sorted(pairs, reverse) ==
    IF pairs = <<>> THEN <<>>
    ELSE InsertStable(sorted(SubSeq(pairs, 1, Len(pairs) - 1), reverse),
                      pairs[Len(pairs)], reverse)

Items(pairs) == [i \in 1..Len(pairs) |-> pairs[i].item]

mutant_attacks(c, o) ==
    LET all == c.attacks \o o.attacks
    IN  Items(sorted([i \in 1..Len(all) |-> [key |-> <<all[i].order>>, item |-> all[i]]],
                     FALSE))

\* ClanWar.attacks
attacks(c, o) ==
    LET all == c.attacks \o o.attacks
    IN  Items(sorted([i \in 1..Len(all) |-> [key |-> <<all[i].order>>, item |-> all[i]]],
                     TRUE))

\* ClanWar.members
members(c, o) ==
    LET all == c.members \o o.members
    IN  Items(sorted([i \in 1..Len(all) |->
                         [key |-> <<Bool(~all[i].is_opponent), all[i].map_position>>,
                          item |-> all[i]]],
                     FALSE))

\* WarClan.get_member: the clan's member with that tag, or None.
clan_get_member(c, tag) ==
    IF \E i \in 1..Len(c.members) : c.members[i].tag = tag
    THEN Some(c.members[CHOOSE i \in 1..Len(c.members) : c.members[i].tag = tag])
    ELSE None

\* ClanWar.get_member: the home side first, then the opponent.
get_member(c, o, tag) ==
    LET home_member == clan_get_member(c, tag)
    IN  IF Truthy(home_member) THEN home_member ELSE clan_get_member(o, tag)

\* ClanWarMember.defenses: the attacks of the war made on this member.
defenses(c, o, member) ==
    SelectSeq(c.attacks \o o.attacks, LAMBDA a : a.defender_tag = member.tag)

SeqMin(s) == CHOOSE x \in {s[i] : i \in 1..Len(s)} : \A i \in 1..Len(s) : x <= s[i]

SeqMax(s) == CHOOSE x \in {s[i] : i \in 1..Len(s)} : \A i \in 1..Len(s) : x >= s[i]

mutant_is_fresh_attack(c, o, attack) ==
    LET defender == get_member(c, o, attack.defender_tag)
    IN  IF defender = None THEN [val |-> None, exc |-> "AttributeError"]
        ELSE LET d == defenses(c, o, defender[1])
             IN  IF Len(d) = 1 THEN [val |-> Some(TRUE), exc |-> ""]
                 ELSE [val |-> Some(SeqMax([i \in 1..Len(d) |-> d[i].order]) = attack.order),
                       exc |-> ""]

\* WarAttack.is_fresh_attack
is_fresh_attack(c, o, attack) ==
    LET defender == get_member(c, o, attack.defender_tag)
    IN  IF defender = None THEN [val |-> None, exc |-> "AttributeError"]
        ELSE LET d == defenses(c, o, defender[1])
             IN  IF Len(d) = 1 THEN [val |-> Some(TRUE), exc |-> ""]
                 ELSE [val |-> Some(SeqMin([i \in 1..Len(d) |-> d[i].order]) = attack.order),
                       exc |-> ""]

Perms(n) == {p \in [1..n -> 1..n] : \A i, j \in 1..n : p[i] = p[j] => i = j}

Other(side) == IF side = "home" THEN "opponent" ELSE "home"

\* A member of one side: its tag, its map position on that side, and
\* ClanWarMember.is_opponent, true for the members of the opponent clan.
Member(side, position) ==
    [tag |-> <<side, position>>, map_position |-> position,
     is_opponent |-> (side = "opponent")]

Attack(order, side, target) ==
    [order |-> order, attacker_tag |-> <<side, target>>,
     defender_tag |-> <<Other(side), target>>]

\* A war for the member list: each side lists up to MaxSide members, with map
\* positions 1..n in any list order.
InitMembers ==
    \E nc \in 0..MaxSide, no \in 0..MaxSide :
        \E pc_ \in Perms(nc), po \in Perms(no) :
            /\ clan = [EmptyClan EXCEPT !.members = [k \in 1..nc |-> Member("home", pc_[k])]]
            /\ opponent =
                   [EmptyClan EXCEPT !.members = [k \in 1..no |-> Member("opponent", po[k])]]

\* A war for the attack list: up to MaxAttacks attacks with distinct orders,
\* each made by either side on one of MaxDefenders members of the other side,
\* listed per side in any order.
InitAttacks ==
    \E n \in 1..MaxAttacks :
        \E p \in Perms(n), side \in [1..n -> {"home", "opponent"}],
           target \in [1..n -> 1..MaxDefenders] :
            LET raw == [k \in 1..n |-> Attack(p[k], side[k], target[k])]
                roster(s) == [k \in 1..MaxDefenders |-> Member(s, k)]
            IN  /\ clan = [EmptyClan EXCEPT
                              !.members = roster("home"),
                              !.attacks = SelectSeq(raw, LAMBDA a : a.attacker_tag[1] = "home")]
                /\ opponent = [EmptyClan EXCEPT
                              !.members = roster("opponent"),
                              !.attacks = SelectSeq(raw, LAMBDA a : a.attacker_tag[1] = "opponent")]

InitRoster ==
    /\ state = "inWar"
    /\ war_tag = None
    /\ preparation_start_time = None
    /\ start_time = None
    /\ InitMembers \/ InitAttacks
    /\ NoGroup
    /\ ret = NoCall

GetAttacks ==
    /\ ret' = Returns("attacks", None, attacks(clan, opponent))
    /\ UNCHANGED <<warVars, groupVars>>

GetMembers ==
    /\ ret' = Returns("members", None, members(clan, opponent))
    /\ UNCHANGED <<warVars, groupVars>>

GetIsFreshAttack ==
    /\ \E i \in 1..Len(clan.attacks \o opponent.attacks) :
           LET a == (clan.attacks \o opponent.attacks)[i]
               r == is_fresh_attack(clan, opponent, a)
           IN  ret' = [op |-> "is_fresh_attack", arg |-> Some(a), val |-> r.val, exc |-> r.exc]
    /\ UNCHANGED <<warVars, groupVars>>

NextRoster == GetAttacks \/ GetMembers \/ GetIsFreshAttack

SpecRoster == InitRoster /\ [][NextRoster]_vars

Range(s) == {s[i] : i \in 1..Len(s)}

\* C2: members lists every home-side member before every opponent-side member,
\* each side in ascending map position, and holds exactly the members of both
\* sides.
C2_HomeFirst ==
    ret.op = "members" =>
        /\ \A i, j \in 1..Len(ret.val) :
               (~ret.val[i].is_opponent /\ ret.val[j].is_opponent) => i < j
        /\ \A i, j \in 1..Len(ret.val) :
               (i < j /\ ret.val[i].is_opponent = ret.val[j].is_opponent)
                   => ret.val[i].map_position <= ret.val[j].map_position
        /\ Len(ret.val) = Len(clan.members) + Len(opponent.members)
        /\ Range(ret.val) = Range(clan.members) \cup Range(opponent.members)

\* C8: with unique orders, attacks is strictly descending by order, as long as
\* the two sides' attack lists together, and holds exactly their attacks.
C8_AttacksDescending ==
    ret.op = "attacks" =>
        /\ \A i, j \in 1..Len(ret.val) : i < j => ret.val[i].order > ret.val[j].order
        /\ Len(ret.val) = Len(clan.attacks) + Len(opponent.attacks)
        /\ Range(ret.val) = Range(clan.attacks) \cup Range(opponent.attacks)

\* Both sides have attacked and the two lists put together are not in
\* descending order already.
C8_Witness ==
    /\ ret.op = "attacks"
    /\ Len(clan.attacks) >= 1
    /\ Len(opponent.attacks) >= 1
    /\ Len(ret.val) = MaxAttacks
    /\ ret.val # clan.attacks \o opponent.attacks

Received(tag) == {a \in Range(clan.attacks) \cup Range(opponent.attacks) : a.defender_tag = tag}

\* C4: with unique orders, an attack is reported fresh exactly when its order
\* is the least among the attacks on its defender, so exactly one attack on
\* each attacked defender is fresh; the only attack on a defender is fresh.
C4_FreshIsFirst ==
    ret.op = "is_fresh_attack" =>
        LET a == ret.arg[1]
            on == Received(a.defender_tag)
        IN  /\ ret.exc = ""
            /\ ret.val = Some(\A b \in on : a.order <= b.order)
            /\ Cardinality(on) = 1 => ret.val = Some(TRUE)
            /\ Cardinality({b \in on : is_fresh_attack(clan, opponent, b).val = Some(TRUE)}) = 1

\* A later attack on a defender attacked more than once is asked and is not fresh.
C4_Witness ==
    /\ ret.op = "is_fresh_attack"
    /\ Cardinality(Received(ret.arg[1].defender_tag)) >= 2
    /\ ret.val = Some(FALSE)

----------------------------------------------------------------------------
(* ClanWarLeagueGroup: construction, clans, get_wars                       *)

MaxRounds == 3

MaxClans == 2

MaxAccesses == 2

\* The warTags of a declared round: rounds not started, started, and mixed.
WarTagLists ==
    { <<"#0">>, <<"#2ABC">>, <<"#0", "#0">>, <<"#0", "#2DEF">>,
      <<"#2ABC", "#0">>, <<"#2ABC", "#2DEF">> }

DeclaredRounds ==
    UNION {[1..n -> {[warTags |-> w] : w \in WarTagLists}] : n \in 0..MaxRounds}

DeclaredClans == {[k \in 1..n |-> <<"clan", k>>] : n \in 0..MaxClans}

\* The list object __init__ binds to _clans.
InitialList == [id |-> 0, items |-> <<>>]

mutant_from_data(d) ==
    [number_of_rounds |-> Len(d.rounds),
     rounds |-> LET kept == SelectSeq(d.rounds, LAMBDA n : n.warTags[Len(n.warTags)] # "#0")
                IN  [i \in 1..Len(kept) |-> kept[i].warTags],
     iter_clans |-> d.clans]

\* ClanWarLeagueGroup._from_data: the fields it sets.  warTags[0] of the
\* source is warTags[1] here; the generator __iter_clans is what it has still
\* to yield.
from_data(d) ==
    [number_of_rounds |-> Len(d.rounds),
     rounds |-> LET kept == SelectSeq(d.rounds, LAMBDA n : n.warTags[1] # "#0")
                IN  [i \in 1..Len(kept) |-> kept[i].warTags],
     iter_clans |-> d.clans]

\* list[i] of Python on a list of n items: the 0-based position read, or None
\* for an IndexError.
PyIndex(n, i) ==
    IF 0 <= i /\ i < n THEN Some(i)
    ELSE IF i < 0 /\ -n <= i THEN Some(n + i)
    ELSE None

Abs(i) == IF i < 0 THEN -i ELSE i

mutant_get_wars(rs, round_index) ==
    LET at == PyIndex(Len(rs), round_index)
    IN  IF at = None THEN [val |-> None, exc |-> "IndexError"]
        ELSE [val |-> Some([round |-> at[1], tags |-> rs[at[1] + 1]]), exc |-> ""]

\* ClanWarLeagueGroup.get_wars: the round resolved (its 0-based position in
\* rounds and the tags the LeagueWarIterator is given), or the IndexError.
get_wars(rs, round_index) ==
    LET index == IF Len(rs) = 1 /\ Abs(round_index) > 1 THEN -1 ELSE round_index
        at == PyIndex(Len(rs), index)
    IN  IF at = None THEN [val |-> None, exc |-> "IndexError"]
        ELSE [val |-> Some([round |-> at[1], tags |-> rs[at[1] + 1]]), exc |-> ""]

RoundIndexes == (-(MaxRounds + 2))..(MaxRounds + 2)

InitGroup ==
    /\ NoWar
    /\ \E r \in DeclaredRounds, c \in DeclaredClans : data = [rounds |-> r, clans |-> c]
    /\ built = FALSE
    /\ rounds = <<>>
    /\ number_of_rounds = 0
    /\ _clans = InitialList
    /\ iter_clans = <<>>
    /\ allocated = 0
    /\ returned = <<>>
    /\ pc = NoReaders
    /\ clans_local = NoReaders
    /\ ret = NoCall

\* ClanWarLeagueGroup.__init__
GroupInit ==
    /\ ~built
    /\ built' = TRUE
    /\ _clans' = InitialList
    /\ LET f == from_data(data)
       IN  /\ number_of_rounds' = f.number_of_rounds
           /\ rounds' = f.rounds
           /\ iter_clans' = f.iter_clans
    /\ ret' = Returns("__init__", None, None)
    /\ UNCHANGED <<warVars, data, allocated, returned, pc, clans_local>>

\* The clans property, run from its first line to its return.
GetClans ==
    /\ built
    /\ Len(returned) < MaxAccesses
    /\ IF _clans.items # <<>>
       THEN /\ returned' = Append(returned, _clans)
            /\ ret' = Returns("clans", None, Some(_clans))
            /\ UNCHANGED <<_clans, iter_clans, allocated>>
       ELSE LET clans == [id |-> allocated + 1, items |-> iter_clans]
            IN  /\ allocated' = allocated + 1
                /\ iter_clans' = <<>>
                /\ _clans' = clans
                /\ returned' = Append(returned, clans)
                /\ ret' = Returns("clans", None, Some(clans))
    /\ UNCHANGED <<warVars, data, built, rounds, number_of_rounds, pc, clans_local>>

GetWars ==
    /\ built
    /\ \E round_index \in RoundIndexes :
           LET r == get_wars(rounds, round_index)
           IN  ret' = [op |-> "get_wars", arg |-> Some(round_index),
                       val |-> r.val, exc |-> r.exc]
    /\ UNCHANGED <<warVars, groupVars>>

NextGroup == GroupInit \/ GetClans \/ GetWars

SpecGroup == InitGroup /\ [][NextGroup]_vars

\* The declared rounds that are kept: those whose first war tag is not "#0".
Kept == {i \in 1..Len(data.rounds) : data.rounds[i].warTags[1] # "#0"}

\* C7: after construction rounds holds, in declared order, exactly the
\* declared rounds whose first war tag is not "#0", so no round whose tags are
\* all "#0", and number_of_rounds is the length of the declared list.
C7_RoundsFiltered ==
    built =>
        /\ number_of_rounds = Len(data.rounds)
        /\ Len(rounds) = Cardinality(Kept)
        /\ \A i \in Kept :
               rounds[Cardinality({j \in Kept : j <= i})] = data.rounds[i].warTags
        /\ \A k \in 1..Len(rounds) : \E t \in 1..Len(rounds[k]) : rounds[k][t] # "#0"

\* Two declared rounds not yet started, then a started one: one visible round
\* of a declared count of three.
C7_Witness ==
    /\ built
    /\ Len(data.rounds) = 3
    /\ data.rounds[1].warTags = <<"#0">>
    /\ data.rounds[2].warTags = <<"#0", "#0">>
    /\ rounds = << <<"#2ABC", "#2DEF">> >>
    /\ number_of_rounds = 3

Resolved(position) ==
    /\ ret.exc = ""
    /\ ret.val = Some([round |-> position, tags |-> rounds[position + 1]])

\* C5 as claimed: an index within -n..n-1 resolves by Python's negative
\* indexing, every other index is an IndexError, except -2 on a group of one
\* visible round, which resolves that round.
C5_OnlyDefaultRemapped ==
    ret.op = "get_wars" =>
        LET n == Len(rounds)
            i == ret.arg[1]
        IN  IF -n <= i /\ i < n THEN Resolved(i % n)
            ELSE IF n = 1 /\ i = -2 THEN Resolved(0)
            ELSE ret.exc = "IndexError"

\* C5 as amended: on a group of one visible round every index of absolute
\* value above 1 resolves that round, and of the indexes out of range only 1
\* is an IndexError; with any other number of visible rounds an index within
\* -n..n-1 resolves by Python's negative indexing and any other is an
\* IndexError.
C5_AnyDistantIndexRemapped ==
    ret.op = "get_wars" =>
        LET n == Len(rounds)
            i == ret.arg[1]
        IN  IF -n <= i /\ i < n THEN Resolved(i % n)
            ELSE IF n = 1 /\ (i > 1 \/ i < -1) THEN Resolved(0)
            ELSE ret.exc = "IndexError"

\* The default index on a group of one visible round.
C5_Witness ==
    /\ ret.op = "get_wars"
    /\ Len(rounds) = 1
    /\ ret.arg = Some(-2)
    /\ Resolved(0)

\* C6: every access to clans returns the identical list, holding the declared
\* clans in declared order, and the lazy sequence is materialized at most once,
\* for any number of declared clans.
C6_MaterializedOnce ==
    /\ \A i \in 1..Len(returned) : returned[i] = returned[1]
    /\ \A i \in 1..Len(returned) : returned[i].items = data.clans
    /\ allocated <= 1

----------------------------------------------------------------------------
(* ClanWarLeagueGroup.clans read by concurrent readers                     *)

NumReaders == 2

Readers == 1..NumReaders

\* A freshly constructed group with a non-empty declared clan list, and
\* readers that have not called yet.
InitConcurrent ==
    /\ NoWar
    /\ \E c \in DeclaredClans \ {<<>>} : data = [rounds |-> <<>>, clans |-> c]
    /\ built = TRUE
    /\ rounds = from_data(data).rounds
    /\ number_of_rounds = from_data(data).number_of_rounds
    /\ _clans = InitialList
    /\ iter_clans = from_data(data).iter_clans
    /\ allocated = 0
    /\ returned = <<>>
    /\ pc = [r \in Readers |-> "idle"]
    /\ clans_local = [r \in Readers |-> InitialList]
    /\ ret = NoCall

\* The calls of the clans property made so far, returned or still running.
Calls == Len(returned) + Cardinality({q \in Readers : pc[q] # "idle"})

MaxCalls == MaxAccesses + NumReaders

\* clans = self._clans; if clans: return clans
ReadCache(r) ==
    /\ pc[r] = "idle"
    /\ Calls < MaxCalls
    /\ clans_local' = [clans_local EXCEPT ![r] = _clans]
    /\ IF _clans.items # <<>>
       THEN /\ returned' = Append(returned, _clans)
            /\ ret' = Returns("clans", Some(r), Some(_clans))
            /\ pc' = pc
       ELSE /\ pc' = [pc EXCEPT ![r] = "drain"]
            /\ UNCHANGED <<returned, ret>>
    /\ UNCHANGED <<warVars, data, built, rounds, number_of_rounds, _clans, iter_clans,
                   allocated>>

\* list(self.__iter_clans): a new list of what the generator still yields.
Drain(r) ==
    /\ pc[r] = "drain"
    /\ clans_local' = [clans_local EXCEPT ![r] = [id |-> allocated + 1, items |-> iter_clans]]
    /\ allocated' = allocated + 1
    /\ iter_clans' = <<>>
    /\ pc' = [pc EXCEPT ![r] = "write"]
    /\ UNCHANGED <<warVars, data, built, rounds, number_of_rounds, _clans, returned, ret>>

\* self._clans = clans; return clans
WriteCache(r) ==
    /\ pc[r] = "write"
    /\ _clans' = clans_local[r]
    /\ returned' = Append(returned, clans_local[r])
    /\ ret' = Returns("clans", Some(r), Some(clans_local[r]))
    /\ pc' = [pc EXCEPT ![r] = "idle"]
    /\ UNCHANGED <<warVars, data, built, rounds, number_of_rounds, iter_clans, allocated,
                   clans_local>>

NextConcurrent == \E r \in Readers : ReadCache(r) \/ Drain(r) \/ WriteCache(r)

SpecConcurrent == InitConcurrent /\ [][NextConcurrent]_vars

\* C10: with concurrent readers of a fresh group whose declared clan list is
\* not empty, every access returns a list holding all declared clans and the
\* cache field, once written, holds neither an empty nor a partial list.
C10_ConcurrentReadersSafe ==
    /\ \A i \in 1..Len(returned) : returned[i].items = data.clans
    /\ _clans # InitialList => _clans.items = data.clans

====
